---- MODULE Spec2Model ----
(***************************************************************************)
(* Model of excel_report_maker.ExcelReportGenerator                        *)
(* (src/src/excel_report_maker/__init__.py).                                *)
(*                                                                          *)
(* The generator object (results, intro_text, wb, global_table_counter),   *)
(* the workbook it owns (sheets with cells, tables, images and column      *)
(* widths) and the standard output are the state.  Every public method is  *)
(* an action; the two sheet-building loops are stepped statement by        *)
(* statement so that the cursor row and the loop positions are state.      *)
(* Python values are records [t |-> type, s |-> str(value)], strings are   *)
(* TLA+ strings, a worksheet is a record of what openpyxl keeps for it.    *)
(***************************************************************************)
EXTENDS Integers, Sequences, FiniteSets, TLC

VARIABLES
    results,               \* self.results: <<[name, tables: <<[title, df]>>]>>
    intro_text,            \* self.intro_text
    wb,                    \* self.wb: the sequence of worksheets
    global_table_counter,  \* self.global_table_counter
    out,                   \* lines printed to standard output
    saved,                 \* output paths wb.save() has written
    image_support,         \* can openpyxl.drawing.image.Image be built (Pillow)
    pc,                    \* position of the running method, "idle" between calls
    mode,                  \* which sheet-building loop runs: "plain" / "images"
    image_functions,       \* the image_functions argument of the running call
    in_generate,           \* the loop was entered from generate_workbook
    si,                    \* position in self.results.items()
    ti,                    \* position in queries_dict.items()
    cur_ws,                \* index in wb of the sheet being built (ws)
    current_row,           \* the local current_row of the loops
    figures,               \* figures still to visit in `for fig in figures`
    ret,                   \* return value of the last direct call
    exc,                   \* exception that left the last call ("none")
    trace,                 \* methods entered, in order
    calls,                 \* number of calls the caller has made
    last,                  \* the last direct call: arguments and sheet before
    provider_log,          \* provider calls and image placements of the loop
    placed,                \* the append_df_as_table calls made, in order
    budget,                \* calls the caller makes on one generator
    prev                   \* the generator the caller built before this one

vars == <<results, intro_text, wb, global_table_counter, out, saved,
          image_support, pc, mode, image_functions, in_generate, si, ti,
          cur_ws, current_row, figures, ret, exc, trace, calls, last,
          provider_log, placed, budget, prev>>

-----------------------------------------------------------------------------
(* Bounds of the model.                                                     *)

MaxCalls == 2      \* calls the caller makes on one scenario
MaxRows == 2       \* data rows of the largest sample DataFrame
MaxImageCalls == 2 \* image calls the caller makes on one sheet

-----------------------------------------------------------------------------
(* Python values and strings.                                               *)

Min(a, b) == IF a <= b THEN a ELSE b
Max(a, b) == IF a >= b THEN a ELSE b

SetMax(S) == IF S = {} THEN 0 ELSE CHOOSE y \in S : \A z \in S : y >= z

Str(s) == [t |-> "str", s |-> s]
PyInt(s) == [t |-> "int", s |-> s]
PyFloat(s) == [t |-> "float", s |-> s]
PyBool(s) == [t |-> "bool", s |-> s]
None == [t |-> "none", s |-> "None"]

\* str(value)
PyStr(v) == v.s

\* bool(value): None, "", 0, 0.0 and False are falsy
Truthy(v) ==
    CASE v.t = "none" -> FALSE
      [] v.t = "str" -> v.s # ""
      [] v.t = "bool" -> v.s = "True"
      [] OTHER -> v.s \notin {"0", "0.0", "-0.0"}

\* `sub in s` for two strings
Contains(sub, s) ==
    \E i \in 1..(Len(s) - Len(sub) + 1) : SubSeq(s, i, i + Len(sub) - 1) = sub

Alphabet == <<"A", "B", "C", "D", "E", "F", "G", "H", "I", "J", "K", "L", "M",
              "N", "O", "P", "Q", "R", "S", "T", "U", "V", "W", "X", "Y", "Z">>

\* openpyxl.utils.get_column_letter, 1 -> "A", 27 -> "AA": the letters of a
\* column index in bijective base 26
RECURSIVE get_column_letter(_)
get_column_letter(n) ==
    IF n <= 26 THEN Alphabet[n]
    ELSE get_column_letter((n - 1) \div 26) \o Alphabet[((n - 1) % 26) + 1]

LowerAlphabet == <<"a", "b", "c", "d", "e", "f", "g", "h", "i", "j", "k", "l",
                   "m", "n", "o", "p", "q", "r", "s", "t", "u", "v", "w", "x",
                   "y", "z">>

LowerChar(c) ==
    IF \E i \in 1..26 : Alphabet[i] = c
    THEN LowerAlphabet[CHOOSE i \in 1..26 : Alphabet[i] = c]
    ELSE c

\* str.lower()
RECURSIVE Lower(_)
Lower(s) == IF Len(s) = 0 THEN ""
            ELSE LowerChar(SubSeq(s, 1, 1)) \o Lower(SubSeq(s, 2, Len(s)))

Digits == <<"0", "1", "2", "3", "4", "5", "6", "7", "8", "9">>
IsDigit(c) == \E i \in 1..10 : Digits[i] = c
DigitVal(c) == (CHOOSE i \in 1..10 : Digits[i] = c) - 1

\* int(s) for a string of digits
RECURSIVE ParseInt(_)
ParseInt(s) == IF Len(s) = 0 THEN 0
               ELSE 10 * ParseInt(SubSeq(s, 1, Len(s) - 1))
                    + DigitVal(SubSeq(s, Len(s), Len(s)))

-----------------------------------------------------------------------------
(* openpyxl: cells, worksheets and the workbook.                            *)

EmptyFn == [x \in {} |-> 0]

DefaultFont == [bold |-> FALSE, size |-> 11]
Font(bold, size) == [bold |-> bold, size |-> size]

\* a Cell as Worksheet creates it
NewCell == [value |-> None, number_format |-> "General", font |-> DefaultFont]

\* Worksheet(parent, title): no cell, _current_row = 0
NewSheet(title) ==
    [title |-> title, cells |-> EmptyFn, current_row |-> 0, tables |-> <<>>,
     images |-> <<>>, width |-> EmptyFn]

\* ws.cell(row, column, value): the cell is created when it is missing, which
\* raises _current_row to max(row, _current_row); a value of None is not bound
WsCell(ws, r, c, v) ==
    LET there == <<r, c>> \in DOMAIN ws.cells
        base == IF there THEN ws.cells[<<r, c>>] ELSE NewCell
        cell == IF v = None THEN base ELSE [base EXCEPT !.value = v]
    IN [ws EXCEPT !.cells = (<<r, c>> :> cell) @@ ws.cells,
                  !.current_row = IF there THEN @ ELSE Max(r, @)]

\* ws.append(row): new cells in row _current_row + 1, columns 1..len(row)
WsAppend(ws, row) ==
    LET row_idx == ws.current_row + 1
        fresh == [p \in {<<row_idx, c>> : c \in 1..Len(row)} |->
                     [NewCell EXCEPT !.value = row[p[2]]]]
    IN [ws EXCEPT !.cells = fresh @@ ws.cells, !.current_row = row_idx]

\* ws.max_row, ws.max_column
MaxRowOf(ws) == IF DOMAIN ws.cells = {} THEN 1 ELSE SetMax({p[1] : p \in DOMAIN ws.cells})
MaxCol(ws) == IF DOMAIN ws.cells = {} THEN 1 ELSE SetMax({p[2] : p \in DOMAIN ws.cells})

\* the columns `for col in ws.columns` visits: none on a sheet never written
WsColumns(ws) == IF ws.current_row = 0 THEN {} ELSE 1..MaxCol(ws)

\* iterating ws.columns calls ws.cell for every cell of the rectangle from
\* (1, 1) to (max_row, max_column)
WsTouchColumns(ws) ==
    LET rect == {<<r, c>> : r \in 1..MaxRowOf(ws), c \in WsColumns(ws)}
        fresh == [p \in rect \ DOMAIN ws.cells |-> NewCell]
    IN [ws EXCEPT !.cells = fresh @@ ws.cells]

\* the values of the cells of one column, rows 1 to max_row, as ws.columns
\* yields them
ColumnValues(ws, c) ==
    {IF <<r, c>> \in DOMAIN ws.cells THEN ws.cells[<<r, c>>].value ELSE None :
        r \in 1..MaxRowOf(ws)}

sheetnames(wbk) == [i \in 1..Len(wbk) |-> wbk[i].title]

Range(seq) == {seq[i] : i \in 1..Len(seq)}

RECURSIVE Join(_)
Join(names) == IF Len(names) = 0 THEN ""
               ELSE IF Len(names) = 1 THEN names[1]
               ELSE names[1] \o "," \o Join(Tail(names))

\* the end of the run of digits that starts at position i of s
RECURSIVE DigitsEnd(_, _)
DigitsEnd(s, i) ==
    IF i <= Len(s) /\ IsDigit(SubSeq(s, i, i)) THEN DigitsEnd(s, i + 1) ELSE i

\* re.findall(value + "(\d*),?", joined, re.I): the non-empty digit groups,
\* scanning left to right over non-overlapping matches
RECURSIVE FindCounts(_, _, _)
FindCounts(joined, value, i) ==
    LET n == Len(value) IN
    IF i + n - 1 > Len(joined) THEN {}
    ELSE IF Lower(SubSeq(joined, i, i + n - 1)) = Lower(value)
         THEN LET e == DigitsEnd(joined, i + n)
                  after == IF e <= Len(joined) /\ SubSeq(joined, e, e) = ","
                           THEN e + 1 ELSE e
                  here == IF e > i + n
                          THEN {ParseInt(SubSeq(joined, i + n, e - 1))} ELSE {}
              IN here \cup FindCounts(joined, value, after)
         ELSE FindCounts(joined, value, i + 1)

\* openpyxl.utils.exceptions / workbook.child.avoid_duplicate_name: a title
\* that matches an existing one without regard to case gets the next number
avoid_duplicate_name(names, value) ==
    IF \E n \in Range(names) : Lower(n) = Lower(value)
    THEN value \o ToString(SetMax(FindCounts(Join(names), value, 1)) + 1)
    ELSE value

InvalidTitleChars == {"\\", "*", "?", ":", "/", "[", "]"}

\* INVALID_TITLE_REGEX.search(title)
InvalidTitle(title) ==
    \E i \in 1..Len(title) : SubSeq(title, i, i) \in InvalidTitleChars

\* the title a new sheet gets: `title or "Sheet"`, made unique
SheetTitle(wbk, title) ==
    avoid_duplicate_name(sheetnames(wbk), IF title = "" THEN "Sheet" ELSE title)

\* wb.create_sheet(title, index): index 0 inserts in front, no index appends;
\* ok is FALSE when the title setter raises ValueError
create_sheet(wbk, title, front) ==
    IF InvalidTitle(IF title = "" THEN "Sheet" ELSE title)
    THEN [ok |-> FALSE, wb |-> wbk, at |-> 0]
    ELSE LET ws == NewSheet(SheetTitle(wbk, title)) IN
         IF front THEN [ok |-> TRUE, wb |-> <<ws>> \o wbk, at |-> 1]
         ELSE [ok |-> TRUE, wb |-> Append(wbk, ws), at |-> Len(wbk) + 1]

\* Workbook(): one default sheet named "Sheet"
Workbook == <<NewSheet("Sheet")>>

\* del wb[name]
DelSheet(wbk, name) == SelectSeq(wbk, LAMBDA w : w.title # name)

\* every table registered in the workbook, sheet by sheet
RECURSIVE AllTables(_)
AllTables(wbk) ==
    IF Len(wbk) = 0 THEN <<>> ELSE wbk[1].tables \o AllTables(Tail(wbk))

-----------------------------------------------------------------------------
(* pandas DataFrames: ordered column names and rows of values.              *)

\* openpyxl.utils.dataframe.dataframe_to_rows(df, index=False, header=True):
\* the row of column names, then one row per data row
dataframe_to_rows(df) ==
    <<[c \in 1..Len(df.columns) |-> Str(df.columns[c])]>> \o df.rows

-----------------------------------------------------------------------------
(* ExcelReportGenerator.append_df_as_table                                  *)

\* line 59: end_row = start_row + rows_appended - 1 (start_row already raised)
EndRowBug(start_row, rows_appended) == start_row + rows_appended
EndRow(start_row, rows_appended) == start_row + rows_appended - 1

\* line 63: the table reference, for example "A2:C5"
TableRef(start_col, first_row, end_col, end_row) ==
    get_column_letter(start_col) \o ToString(first_row) \o ":"
        \o get_column_letter(end_col) \o ToString(end_row)

\* line 64: displayName=f"Table{self.global_table_counter}"
DisplayName(counter) == "Table" \o ToString(counter)

\* line 65: self.global_table_counter += 1
CounterStuck(counter) == counter
NextCounter(counter) == counter + 1

\* lines 67-73: the fixed TableStyleInfo
TableStyle ==
    [name |-> "TableStyleMedium9", showFirstColumn |-> FALSE,
     showLastColumn |-> FALSE, showRowStripes |-> TRUE,
     showColumnStripes |-> FALSE]

\* line 77: rate_cols = [col for col in df.columns if "Rate" in col]
RateColsAnyCase(columns) ==
    {columns[c] : c \in {d \in 1..Len(columns) : Contains("rate", Lower(columns[d]))}}
RateCols(columns) ==
    {columns[c] : c \in {d \in 1..Len(columns) : Contains("Rate", columns[d])}}

\* line 80: range(initial_data_row + 1, end_row + 1)
RateRows(initial_data_row, end_row) == (initial_data_row + 1)..end_row

\* line 83: return end_row + 2
TableReturnNoGap(end_row) == end_row + 1
TableReturn(end_row) == end_row + 2

\* lines 56-57: for ... in dataframe_to_rows(...): ws.append(row)
RECURSIVE AppendRows(_, _)
AppendRows(ws, rows) ==
    IF Len(rows) = 0 THEN ws ELSE AppendRows(WsAppend(ws, rows[1]), Tail(rows))

\* lines 78-81: ws.cell(row, column).number_format = '0%' on the given cells
SetPercent(ws, targets) ==
    LET made == targets \ DOMAIN ws.cells
        cells == [p \in targets |->
                    [(IF p \in DOMAIN ws.cells THEN ws.cells[p] ELSE NewCell)
                        EXCEPT !.number_format = "0%"]]
    IN [ws EXCEPT !.cells = cells @@ ws.cells,
                  !.current_row = Max(@, SetMax({p[1] : p \in made}))]

\* append_df_as_table(ws, df, table_title, start_row) with the counter it
\* reads: the sheet after the call, the value returned, the counter after
append_df_as_table(ws, df, table_title, start_row, counter) ==
    LET ws1 == WsCell(ws, start_row, 1, Str(table_title))
        ws2 == [ws1 EXCEPT !.cells[<<start_row, 1>>].font = Font(TRUE, 12)]
        initial_data_row == start_row + 1
        rows == dataframe_to_rows(df)
        ws3 == AppendRows(ws2, rows)
        rows_appended == Len(rows)
        end_row == EndRow(initial_data_row, rows_appended)
        end_col == Len(df.columns)
        table == [displayName |-> DisplayName(counter),
                  ref |-> TableRef(1, initial_data_row, end_col, end_row),
                  tableStyleInfo |-> TableStyle]
        ws4 == [ws3 EXCEPT !.tables = Append(@, table)]
        rate_cols == RateCols(df.columns)
        targets == {<<r, c>> : r \in RateRows(initial_data_row, end_row),
                               c \in {d \in 1..Len(df.columns) :
                                        df.columns[d] \in rate_cols}}
    IN [ws |-> SetPercent(ws4, targets),
        ret |-> TableReturn(end_row),
        counter |-> NextCounter(counter),
        name |-> table.displayName,
        ref |-> table.ref]

-----------------------------------------------------------------------------
(* ExcelReportGenerator.add_image_from_figure / add_image_from_file         *)

\* int(height / 15): true division, truncated towards zero
TruncDiv(a, b) == IF a >= 0 THEN a \div b ELSE -((-a) \div b)

\* lines 120, 162: rows_occupied = int(height / 15) + 2
RowsOccupiedRoundedUp(height) == TruncDiv(height + 14, 15) + 2
RowsOccupied(height) == TruncDiv(height, 15) + 2

\* lines 125, 148, 167: return start_row + 1
SoftDegradeReturn(start_row, height) == start_row + 1

\* a start_col argument: a str or an int
ColStr(s) == [t |-> "str", s |-> s]
ColInt(n) == [t |-> "int", n |-> n]

\* the last column index get_column_letter has a letter for ("ZZZ")
MaxColumnIndex == 18278

\* lines 115, 157: get_column_letter(start_col) raises ValueError for an index
\* outside 1..18278; a str start_col never reaches it
ValidStartCol(start_col) ==
    start_col.t = "str" \/ start_col.n \in 1..MaxColumnIndex

\* lines 112-115, 154-157: a str start_col is used as written, an int goes
\* through get_column_letter
AnchorCellZeroBased(start_col, start_row) ==
    IF start_col.t = "str" THEN start_col.s \o ToString(start_row)
    ELSE get_column_letter(start_col.n + 1) \o ToString(start_row)
AnchorCell(start_col, start_row) ==
    IF start_col.t = "str" THEN start_col.s \o ToString(start_row)
    ELSE get_column_letter(start_col.n) \o ToString(start_row)

\* ws.add_image(img)
WsAddImage(ws, anchor, width, height) ==
    [ws EXCEPT !.images = Append(@, [anchor |-> anchor, width |-> width,
                                      height |-> height])]

\* a figure: "ok" saves as a PNG; "bad" is an object whose savefig raises;
\* "mock" is one whose savefig writes nothing an Image can be read from
Figs == {"ok", "bad", "mock"}

\* add_image_from_figure(ws, fig, start_row, start_col, width, height) with
\* support = Image can be built.  raised names the exception that leaves the
\* method ("none" when it returns); printed is what it prints.
add_image_from_figure(ws, fig, start_row, start_col, width, height, support) ==
    IF fig = "bad"
    THEN [ws |-> ws, ret |-> 0, raised |-> "Exception", printed |-> <<>>]
    ELSE IF ~support
    THEN [ws |-> ws, ret |-> SoftDegradeReturn(start_row, height), raised |-> "none",
          printed |-> <<"Warning: Image embedding requires matplotlib. Skipping image.">>]
    ELSE IF fig = "mock"
    THEN [ws |-> ws, ret |-> 0, raised |-> "Exception", printed |-> <<>>]
    ELSE IF ~ValidStartCol(start_col)
    THEN [ws |-> ws, ret |-> 0, raised |-> "ValueError", printed |-> <<>>]
    ELSE [ws |-> WsAddImage(ws, AnchorCell(start_col, start_row), width, height),
          ret |-> start_row + RowsOccupied(height), raised |-> "none",
          printed |-> <<>>]

\* the files of the model: one readable PNG, one file that is no image
ExistingFiles == {"chart.png", "broken.png"}
Paths == ExistingFiles \cup {"nonexistent.png"}

\* line 146: Path(image_path).exists()
PathExists(image_path) == image_path \in ExistingFiles

\* add_image_from_file(ws, image_path, start_row, start_col, width, height)
add_image_from_file(ws, image_path, start_row, start_col, width, height, support) ==
    IF ~PathExists(image_path)
    THEN [ws |-> ws, ret |-> SoftDegradeReturn(start_row, height), raised |-> "none",
          printed |-> <<"Warning: Image file not found: " \o image_path>>]
    ELSE IF ~support
    THEN [ws |-> ws, ret |-> SoftDegradeReturn(start_row, height), raised |-> "none",
          printed |-> <<"Warning: Image embedding not available. Skipping image.">>]
    ELSE IF image_path = "broken.png"
    THEN [ws |-> ws, ret |-> 0, raised |-> "Exception", printed |-> <<>>]
    ELSE IF ~ValidStartCol(start_col)
    THEN [ws |-> ws, ret |-> 0, raised |-> "ValueError", printed |-> <<>>]
    ELSE [ws |-> WsAddImage(ws, AnchorCell(start_col, start_row), width, height),
          ret |-> start_row + RowsOccupied(height), raised |-> "none",
          printed |-> <<>>]

-----------------------------------------------------------------------------
(* The rest of ExcelReportGenerator as operators.                           *)

\* __init__, lines 21-23: a new Workbook without its default sheet
KeepDefaultSheet(wbk) == wbk
DropDefaultSheet(wbk) ==
    IF "Sheet" \in Range(sheetnames(wbk)) THEN DelSheet(wbk, "Sheet") ELSE wbk

\* line 30: self.wb.create_sheet("Introduction", 0)
IntroductionSheet(wbk) == create_sheet(wbk, "Introduction", TRUE)

\* create_introduction_sheet, lines 30-37
create_introduction_sheet(wbk, lines) ==
    LET made == IntroductionSheet(wbk)
        ws1 == WsAppend(made.wb[made.at], <<Str("Introduction")>>)
        ws2 == [ws1 EXCEPT !.cells[<<1, 1>>].font = Font(TRUE, 14)]
        ws3 == AppendRows(ws2, [i \in 1..Len(lines) |-> <<Str(lines[i])>>])
        ws4 == [ws3 EXCEPT !.width = ("A" :> 100) @@ @]
    IN [made.wb EXCEPT ![made.at] = ws4]

\* an image_functions argument: None, or a dict keyed by sheet name
NoFns == [none |-> TRUE, keys |-> {}]
Fns(keys) == [none |-> FALSE, keys |-> keys]

\* line 240: `if image_functions:` is true of a dict that is not empty
UseImagesIfGiven(fns) == ~fns.none
UseImages(fns) == ~fns.none /\ fns.keys # {}

\* line 204: `if image_functions and sheet_name in image_functions`
HasProvider(fns, sheet_name) == UseImages(fns) /\ sheet_name \in fns.keys

\* lines 184, 226: len(str(cell.value)) if cell.value else 0
CellLength(v) == IF Truthy(v) THEN Len(PyStr(v)) ELSE 0

\* lines 184, 226: max(..., default=0) over the cells of one column
MaxLength(ws, c) == SetMax({CellLength(v) : v \in ColumnValues(ws, c)})

\* line 227: the cap of the variant with images
WidthCap == 50

\* line 185: adjusted_width = max_length + 2
AdjustedWidth(max_length) == max_length + 2

\* line 227: adjusted_width = min(max_length + 2, 50)
AdjustedWidthUncapped(max_length) == max_length + 2
AdjustedWidthCapped(max_length) == Min(max_length + 2, WidthCap)

\* lines 183-186 (capped = FALSE) and 225-228 (capped = TRUE)
AutoWidth(ws, capped) ==
    LET ws1 == WsTouchColumns(ws)
        set == [l \in {get_column_letter(c) : c \in WsColumns(ws)} |->
                  LET c == CHOOSE d \in WsColumns(ws) : get_column_letter(d) = l
                  IN IF capped THEN AdjustedWidthCapped(MaxLength(ws1, c))
                     ELSE AdjustedWidth(MaxLength(ws1, c))]
    IN [ws1 EXCEPT !.width = set @@ @]

\* lines 205-223: the try block is inside the loop over the tables, so after
\* a caught failure at table i of n the loop goes on with table i + 1
AbortSheetAfterFailure(i, n) == n + 1
NextAfterFailure(i, n) == i + 1

\* line 223: the warning of the fault boundary around one table's images
FailWarning(sheet_name, table_title, e) ==
    "Warning: Failed to add images for " \o sheet_name \o "/" \o table_title
        \o ": " \o e

\* line 246
SavedMessage(output_path) == "Workbook successfully saved to " \o output_path

-----------------------------------------------------------------------------
(* Sample inputs.                                                           *)

\* 'Category', 'Values', 'Rate' as in the tests, MaxRows rows: A, 10, 0.1 ...
DfCategory ==
    [columns |-> <<"Category", "Values", "Rate">>,
     rows |-> [i \in 1..MaxRows |->
                 <<Str(Alphabet[i]), PyInt(ToString(10 * i)),
                   PyFloat("0." \o ToString(i))>>]]

\* pd.DataFrame(columns=['A', 'B'])
DfEmpty == [columns |-> <<"A", "B">>, rows |-> <<>>]

\* values that are falsy in Python, and column names near "Rate"
DfZeros ==
    [columns |-> <<"n", "ok", "Pass Rate", "rate">>,
     rows |-> <<<<PyInt("0"), PyBool("False"), PyFloat("0.0"), PyFloat("0.25")>>>>]

LongText == "xxxxxxxxxxxxxxxxxxxxxxxxxxxxxxxxxxxxxxxxxxxxxxxxxxxxxxxxxxxxxxxxxxxxxxxxxxxxxxxx"

\* one value of 80 characters, one of 49
DfLong ==
    [columns |-> <<"Id", "Notes", "Rates">>,
     rows |-> <<<<PyInt("1"), Str(LongText), Str(SubSeq(LongText, 1, 49))>>>>]

Frames == {DfCategory, DfEmpty, DfZeros, DfLong}

Tbl(title, df) == [title |-> title, df |-> df]
Sht(name, tables) == [name |-> name, tables |-> tables]

Inputs ==
    { <<>>,
      <<Sht("Analysis", <<Tbl("Category Data", DfCategory), Tbl("Zeros", DfZeros)>>),
        Sht("Summary", <<Tbl("Overview", DfCategory)>>)>>,
      <<Sht("Empty", <<Tbl("Empty Table", DfEmpty), Tbl("Long", DfLong)>>)>>,
      <<Sht("Analysis", <<Tbl("Long", DfLong)>>), Sht("Blank", <<>>)>>,
      <<Sht("introduction", <<Tbl("Category Data", DfCategory)>>)>>,
      <<Sht("Data", <<Tbl("Zeros", DfZeros)>>), Sht("data", <<Tbl("Empty Table", DfEmpty)>>),
        Sht("Data1", <<>>)>>,
      <<Sht("Sheet", <<Tbl("Empty Table", DfEmpty)>>)>>,
      <<Sht("Analysis", <<Tbl("Zeros", DfZeros)>>), Sht("Q1/Q2", <<Tbl("Empty Table", DfEmpty)>>)>> }

IntroLines == <<"Test Report", "This is a test report.", "Generated automatically.">>

\* the image_functions arguments tried on an input
FnsChoices(res) ==
    {NoFns, Fns({}), Fns({res[i].name : i \in 1..Len(res)})}
        \cup {Fns({res[i].name}) : i \in 1..Len(res)}

\* what an image function returns: a list of figures and Nones, or one
\* object that is no list (a figure, or None)
ListOf(items) == [list |-> TRUE, value |-> items]
Single(x) == [list |-> FALSE, value |-> x]

\* lines 209-210: if not isinstance(figures, list): figures = [figures]
NormalizeListsOnly(result) == IF result.list THEN result.value ELSE <<>>
Normalize(result) == IF result.list THEN result.value ELSE <<result.value>>

\* what an image function does when called: it raises, or returns None, one
\* figure or a list
Outcome(raises, result) == [raises |-> raises, result |-> result]
ProviderOutcomes ==
    { Outcome(TRUE, Single("None")),
      Outcome(FALSE, Single("None")),
      Outcome(FALSE, Single("ok")),
      Outcome(FALSE, ListOf(<<>>)),
      Outcome(FALSE, ListOf(<<"None", "ok", "None">>)),
      Outcome(FALSE, ListOf(<<"ok", "bad", "ok">>)) }

-----------------------------------------------------------------------------
(* Initial states: a generator right after __init__.                        *)

NoCall == [op |-> "none"]
NoPrev == [set |-> FALSE, wb |-> <<>>, trace |-> <<>>]

\* __init__(results, intro_text), lines 19-24, and the caller's bookkeeping
ConstructedWith(res, intro) ==
    /\ results = res
    /\ intro_text = intro
    /\ wb = DropDefaultSheet(Workbook)
    /\ global_table_counter = 1
    /\ out = <<>>
    /\ saved = {}
    /\ pc = "idle"
    /\ mode = "plain"
    /\ image_functions = NoFns
    /\ in_generate = FALSE
    /\ si = 0
    /\ ti = 0
    /\ cur_ws = 0
    /\ current_row = 0
    /\ figures = <<>>
    /\ ret = 0
    /\ exc = "none"
    /\ trace = <<>>
    /\ calls = 0
    /\ last = NoCall
    /\ provider_log = <<>>
    /\ placed = <<>>
    /\ prev = NoPrev

\* a generator with the introduction text of tests/test_generation.py
Constructed(res) == ConstructedWith(res, IntroLines)

\* one call per generator on any of the sample inputs
Init ==
    /\ image_support \in BOOLEAN
    /\ budget = 1
    /\ \E res \in Inputs : Constructed(res)

\* pd.DataFrame({"A": [1, 2], "B": [3, 4]}) of tests/test_embedding.py
DfAB ==
    [columns |-> <<"A", "B">>,
     rows |-> <<<<PyInt("1"), PyInt("3")>>, <<PyInt("2"), PyInt("4")>>>>]

CallsInput == <<Sht("Sheet1", <<Tbl("Table1", DfAB)>>)>>

\* a generator on the results of tests/test_embedding.py, with the three
\* introduction lines of tests/test_generation.py, called up to MaxCalls times
InitCalls ==
    /\ image_support \in BOOLEAN
    /\ budget = MaxCalls
    /\ Constructed(CallsInput)

\* the introduction text of the generator fixture of tests/test_embedding.py
EmbeddingIntro == <<"Test report">>

\* the generator of the image tests, called up to MaxImageCalls + 1 times:
\* once for the sheet and MaxImageCalls times for images
InitImages ==
    /\ image_support \in BOOLEAN
    /\ budget = MaxImageCalls + 1
    /\ ConstructedWith(CallsInput, EmbeddingIntro)

Idle == pc = "idle" /\ exc = "none"
CanCall == Idle /\ calls < budget

loopVars == <<mode, image_functions, in_generate, si, ti, cur_ws, current_row, figures>>
objVars == <<results, intro_text, image_support, budget>>

-----------------------------------------------------------------------------
(* The caller: public methods called on the generator.                      *)

\* ExcelReportGenerator(results, intro_text) once more: the caller that has
\* built the sheets of one generator with create_results_sheets keeps it and
\* constructs a second one on the same input.  __init__ prints nothing and
\* leaves the standard output and the saved files as they are.
Construct ==
    /\ Idle
    /\ calls = budget
    /\ ~prev.set
    /\ last.op = "create_results_sheets"
    /\ prev' = [set |-> TRUE, wb |-> wb, trace |-> trace]
    /\ wb' = DropDefaultSheet(Workbook)
    /\ global_table_counter' = 1
    /\ calls' = 0
    /\ trace' = <<>>
    /\ placed' = <<>>
    /\ provider_log' = <<>>
    /\ last' = NoCall
    /\ UNCHANGED <<objVars, loopVars, out, saved, pc, ret, exc>>

\* create_introduction_sheet()
CreateIntroductionSheet ==
    /\ CanCall
    /\ wb' = create_introduction_sheet(wb, intro_text)
    /\ trace' = Append(trace, "create_introduction_sheet")
    /\ calls' = calls + 1
    /\ last' = [op |-> "create_introduction_sheet"]
    /\ UNCHANGED <<objVars, loopVars, global_table_counter, out, saved, pc, ret,
                   exc, provider_log, placed, prev>>

\* append_df_as_table(wb[i], df, title, start_row)
CallAppendDfAsTable(i, df, title, start_row) ==
    /\ CanCall
    /\ i \in 1..Len(wb)
    /\ LET r == append_df_as_table(wb[i], df, title, start_row, global_table_counter)
       IN /\ wb' = [wb EXCEPT ![i] = r.ws]
          /\ global_table_counter' = r.counter
          /\ ret' = r.ret
          /\ placed' = Append(placed, [ws |-> wb[i].title, title |-> title, df |-> df,
                                       start_row |-> start_row, name |-> r.name,
                                       ref |-> r.ref, ret |-> r.ret])
    /\ last' = [op |-> "append_df_as_table", ws |-> i, before |-> wb[i], df |-> df,
                title |-> title, start_row |-> start_row]
    /\ trace' = Append(trace, "append_df_as_table")
    /\ calls' = calls + 1
    /\ UNCHANGED <<objVars, loopVars, out, saved, pc, exc, provider_log, prev>>

ImageOps == {"add_image_from_figure", "add_image_from_file"}

\* the images a call added to its sheet: those the sheet holds beyond `before`
Added(ws, before) == SubSeq(ws.images, Len(before.images) + 1, Len(ws.images))

\* what the caller keeps of the image call made before the next one: its
\* arguments, the row it returned and the images it added
Earlier ==
    IF last.op \in ImageOps
    THEN [op |-> last.op, ws |-> last.ws,
          src |-> IF last.op = "add_image_from_figure" THEN last.fig
                  ELSE last.image_path,
          start_row |-> last.start_row, start_col |-> last.start_col,
          width |-> last.width, height |-> last.height, ret |-> ret,
          added |-> Added(wb[last.ws], last.before)]
    ELSE NoCall

\* add_image_from_figure(wb[i], fig, start_row, start_col, width, height)
CallAddImageFromFigure(i, fig, start_row, start_col, width, height) ==
    /\ CanCall
    /\ i \in 1..Len(wb)
    /\ LET r == add_image_from_figure(wb[i], fig, start_row, start_col, width,
                                      height, image_support)
       IN /\ wb' = [wb EXCEPT ![i] = r.ws]
          /\ ret' = r.ret
          /\ exc' = r.raised
          /\ out' = out \o r.printed
    /\ last' = [op |-> "add_image_from_figure", ws |-> i, before |-> wb[i],
                fig |-> fig, start_row |-> start_row, start_col |-> start_col,
                width |-> width, height |-> height, printed |-> Len(out),
                earlier |-> Earlier]
    /\ trace' = Append(trace, "add_image_from_figure")
    /\ calls' = calls + 1
    /\ UNCHANGED <<objVars, loopVars, global_table_counter, saved, pc,
                   provider_log, placed, prev>>

\* add_image_from_file(wb[i], image_path, start_row, start_col, width, height)
CallAddImageFromFile(i, image_path, start_row, start_col, width, height) ==
    /\ CanCall
    /\ i \in 1..Len(wb)
    /\ LET r == add_image_from_file(wb[i], image_path, start_row, start_col, width,
                                    height, image_support)
       IN /\ wb' = [wb EXCEPT ![i] = r.ws]
          /\ ret' = r.ret
          /\ exc' = r.raised
          /\ out' = out \o r.printed
    /\ last' = [op |-> "add_image_from_file", ws |-> i, before |-> wb[i],
                image_path |-> image_path, start_row |-> start_row,
                start_col |-> start_col, width |-> width, height |-> height,
                printed |-> Len(out), earlier |-> Earlier]
    /\ trace' = Append(trace, "add_image_from_file")
    /\ calls' = calls + 1
    /\ UNCHANGED <<objVars, loopVars, global_table_counter, saved, pc,
                   provider_log, placed, prev>>

\* create_results_sheets(): enter the loop of line 176
CreateResultsSheets ==
    /\ CanCall
    /\ pc' = "sheets"
    /\ mode' = "plain"
    /\ image_functions' = NoFns
    /\ in_generate' = FALSE
    /\ si' = 1
    /\ trace' = Append(trace, "create_results_sheets")
    /\ calls' = calls + 1
    /\ last' = [op |-> "create_results_sheets", printed |-> Len(out)]
    /\ UNCHANGED <<objVars, wb, global_table_counter, out, saved, ti, cur_ws,
                   current_row, figures, ret, exc, provider_log, placed, prev>>

\* create_results_sheets_with_images(fns): enter the loop of line 197
CreateResultsSheetsWithImages(fns) ==
    /\ CanCall
    /\ pc' = "sheets"
    /\ mode' = "images"
    /\ image_functions' = fns
    /\ in_generate' = FALSE
    /\ si' = 1
    /\ trace' = Append(trace, "create_results_sheets_with_images")
    /\ calls' = calls + 1
    /\ last' = [op |-> "create_results_sheets_with_images", fns |-> fns,
                printed |-> Len(out)]
    /\ UNCHANGED <<objVars, wb, global_table_counter, out, saved, ti, cur_ws,
                   current_row, figures, ret, exc, provider_log, placed, prev>>

\* generate_workbook(output_path, fns), lines 238-243: the Introduction
\* sheet, then one of the two loops is entered
GenerateWorkbook(fns) ==
    /\ CanCall
    /\ wb' = create_introduction_sheet(wb, intro_text)
    /\ pc' = "sheets"
    /\ mode' = IF UseImages(fns) THEN "images" ELSE "plain"
    /\ image_functions' = IF UseImages(fns) THEN fns ELSE NoFns
    /\ in_generate' = TRUE
    /\ si' = 1
    /\ trace' = trace \o <<"generate_workbook", "create_introduction_sheet",
                           IF UseImages(fns) THEN "create_results_sheets_with_images"
                           ELSE "create_results_sheets">>
    /\ calls' = calls + 1
    /\ last' = [op |-> "generate_workbook", fns |-> fns, printed |-> Len(out)]
    /\ UNCHANGED <<objVars, global_table_counter, out, saved, ti, cur_ws,
                   current_row, figures, ret, exc, provider_log, placed, prev>>

-----------------------------------------------------------------------------
(* The loops of create_results_sheets and create_results_sheets_with_images *)

\* lines 176-178 / 197-199: the next (sheet_name, queries_dict) item; a
\* title openpyxl refuses raises ValueError out of the method
NextSheet ==
    /\ pc = "sheets"
    /\ si <= Len(results)
    /\ LET made == create_sheet(wb, results[si].name, FALSE) IN
       IF made.ok
       THEN /\ wb' = made.wb
            /\ cur_ws' = made.at
            /\ current_row' = 1
            /\ ti' = 1
            /\ pc' = "tables"
            /\ exc' = exc
       ELSE /\ pc' = "idle"
            /\ exc' = "ValueError"
            /\ UNCHANGED <<wb, cur_ws, current_row, ti>>
    /\ UNCHANGED <<objVars, global_table_counter, out, saved, mode,
                   image_functions, in_generate, si, figures, ret, trace, calls,
                   last, provider_log, placed, prev>>

\* the loop over the sheets is exhausted: the method returns, and
\* generate_workbook goes on to line 245
EndSheets ==
    /\ pc = "sheets"
    /\ si > Len(results)
    /\ pc' = IF in_generate THEN "save" ELSE "idle"
    /\ UNCHANGED <<objVars, wb, global_table_counter, out, saved, loopVars, ret,
                   exc, trace, calls, last, provider_log, placed, prev>>

\* lines 180-181 / 201-204: place the next table; with a provider for the
\* sheet the try block of line 205 is entered
PlaceTable ==
    /\ pc = "tables"
    /\ ti <= Len(results[si].tables)
    /\ LET t == results[si].tables[ti]
           r == append_df_as_table(wb[cur_ws], t.df, t.title, current_row,
                                   global_table_counter)
       IN /\ wb' = [wb EXCEPT ![cur_ws] = r.ws]
          /\ global_table_counter' = r.counter
          /\ current_row' = r.ret
          /\ placed' = Append(placed, [ws |-> wb[cur_ws].title, title |-> t.title, df |-> t.df,
                                       start_row |-> current_row, name |-> r.name,
                                       ref |-> r.ref, ret |-> r.ret])
    /\ IF mode = "images" /\ HasProvider(image_functions, results[si].name)
       THEN pc' = "provider" /\ ti' = ti
       ELSE pc' = "tables" /\ ti' = ti + 1
    /\ UNCHANGED <<objVars, out, saved, mode, image_functions, in_generate, si,
                   cur_ws, figures, ret, exc, trace, calls, last, provider_log,
                   prev>>

\* lines 206-210: the image function is called; what it raises is caught at
\* line 222, what it returns is made a list.  The log keeps what it returned,
\* the list made of it and the number of tables placed at the time.
CallProvider(o) ==
    /\ pc = "provider"
    /\ provider_log' = Append(provider_log,
                              [sheet |-> results[si].name,
                               title |-> results[si].tables[ti].title,
                               event |-> IF o.raises THEN "raised" ELSE "returned",
                               figs |-> IF o.raises THEN <<>>
                                        ELSE Normalize(o.result),
                               result |-> o.result,
                               after |-> Len(placed)])
    /\ IF o.raises
       THEN /\ out' = Append(out, FailWarning(results[si].name,
                                              results[si].tables[ti].title,
                                              "Test error"))
            /\ ti' = NextAfterFailure(ti, Len(results[si].tables))
            /\ pc' = "tables"
            /\ figures' = <<>>
       ELSE /\ figures' = Normalize(o.result)
            /\ pc' = "figures"
            /\ UNCHANGED <<out, ti>>
    /\ UNCHANGED <<objVars, wb, global_table_counter, saved, mode, image_functions,
                   in_generate, si, cur_ws, current_row, ret, exc, trace, calls,
                   last, placed, prev>>

\* lines 212-215: the next fig of the list; None is skipped, another one is
\* placed at current_row and the cursor moves to the returned row plus one;
\* an exception out of the placement ends the list at line 222.  The log
\* keeps every call of add_image_from_figure with its start_row.
PlaceFigure ==
    /\ pc = "figures"
    /\ figures # <<>>
    /\ LET fig == Head(figures) IN
       IF fig = "None"
       THEN /\ figures' = Tail(figures)
            /\ UNCHANGED <<wb, current_row, out, ti, pc, provider_log>>
       ELSE LET r == add_image_from_figure(wb[cur_ws], fig, current_row,
                                           ColStr("A"), 600, 400, image_support)
            IN IF r.raised # "none"
               THEN /\ out' = Append(out \o r.printed,
                                     FailWarning(results[si].name,
                                                 results[si].tables[ti].title,
                                                 "cannot save figure"))
                    /\ provider_log' =
                          Append(provider_log,
                                 [sheet |-> results[si].name,
                                  title |-> results[si].tables[ti].title,
                                  event |-> "placement_raised", figs |-> figures,
                                  start_row |-> current_row])
                    /\ figures' = <<>>
                    /\ ti' = NextAfterFailure(ti, Len(results[si].tables))
                    /\ pc' = "tables"
                    /\ UNCHANGED <<wb, current_row>>
               ELSE /\ wb' = [wb EXCEPT ![cur_ws] = r.ws]
                    /\ current_row' = r.ret + 1
                    /\ out' = out \o r.printed
                    /\ provider_log' =
                          Append(provider_log,
                                 [sheet |-> results[si].name,
                                  title |-> results[si].tables[ti].title,
                                  event |-> "placement", figs |-> <<fig>>,
                                  start_row |-> current_row, ret |-> r.ret])
                    /\ figures' = Tail(figures)
                    /\ UNCHANGED <<ti, pc>>
    /\ UNCHANGED <<objVars, global_table_counter, saved, mode, image_functions,
                   in_generate, si, cur_ws, ret, exc, trace, calls, last, placed,
                   prev>>

\* the list of figures is exhausted: on to the next table
EndFigures ==
    /\ pc = "figures"
    /\ figures = <<>>
    /\ ti' = ti + 1
    /\ pc' = "tables"
    /\ UNCHANGED <<objVars, wb, global_table_counter, out, saved, mode,
                   image_functions, in_generate, si, cur_ws, current_row, figures,
                   ret, exc, trace, calls, last, provider_log, placed, prev>>

\* lines 183-186 / 225-228: the tables of the sheet are placed; set the
\* width of every column of the sheet and go on to the next sheet
AdjustWidths ==
    /\ pc = "tables"
    /\ ti > Len(results[si].tables)
    /\ wb' = [wb EXCEPT ![cur_ws] = AutoWidth(@, mode = "images")]
    /\ si' = si + 1
    /\ pc' = "sheets"
    /\ UNCHANGED <<objVars, global_table_counter, out, saved, mode,
                   image_functions, in_generate, ti, cur_ws, current_row, figures,
                   ret, exc, trace, calls, last, provider_log, placed, prev>>

OutputPath == "report.xlsx"

\* lines 245-246: self.wb.save(output_path) and the confirmation
Save ==
    /\ pc = "save"
    /\ saved' = saved \cup {OutputPath}
    /\ out' = Append(out, SavedMessage(OutputPath))
    /\ trace' = Append(trace, "save")
    /\ pc' = "idle"
    /\ in_generate' = FALSE
    /\ UNCHANGED <<objVars, wb, global_table_counter, mode, image_functions, si,
                   ti, cur_ws, current_row, figures, ret, exc, calls, last,
                   provider_log, placed, prev>>

-----------------------------------------------------------------------------
(* Specifications.                                                          *)

Loop ==
    \/ NextSheet
    \/ EndSheets
    \/ PlaceTable
    \/ \E o \in ProviderOutcomes : CallProvider(o)
    \/ PlaceFigure
    \/ EndFigures
    \/ AdjustWidths
    \/ Save

Build ==
    \/ CreateResultsSheets
    \/ \E fns \in FnsChoices(results) : CreateResultsSheetsWithImages(fns)
    \/ \E fns \in FnsChoices(results) : GenerateWorkbook(fns)

StartRows == {1, 5, 10}

\* start_row, start_col, width, height of the image calls tried
ImageArgs ==
    { <<1, ColStr("A"), 600, 400>>, <<1, ColInt(1), 600, 400>>,
      <<5, ColStr("C"), 800, 14>>, <<5, ColInt(3), 800, 14>> }

Direct ==
    \/ \E i \in 1..Len(wb), df \in Frames, r \in StartRows :
          CallAppendDfAsTable(i, df, "Test Table", r)
    \/ \E i \in 1..Len(wb), fig \in Figs, a \in ImageArgs :
          CallAddImageFromFigure(i, fig, a[1], a[2], a[3], a[4])
    \/ \E i \in 1..Len(wb), f \in Paths, a \in ImageArgs :
          CallAddImageFromFile(i, f, a[1], a[2], a[3], a[4])

\* the image calls tried on the sheet of the image tests: a column as index
\* and as letter for the first and the last column, columns of one, two and
\* three letters, and the first index without a letter; heights of no whole
\* row, of one row and of many
AnchorArgs ==
    ImageArgs \cup
    { <<3, ColStr("AA"), 600, 15>>, <<3, ColInt(27), 600, 15>>,
      <<2, ColStr("ZZZ"), 1, 0>>, <<2, ColInt(MaxColumnIndex), 1, 0>>,
      <<2, ColStr("AAAA"), 1, 0>>, <<2, ColInt(MaxColumnIndex + 1), 1, 0>> }

DirectImages ==
    \/ \E i \in 1..Len(wb), fig \in Figs, a \in AnchorArgs :
          CallAddImageFromFigure(i, fig, a[1], a[2], a[3], a[4])
    \/ \E i \in 1..Len(wb), f \in Paths, a \in AnchorArgs :
          CallAddImageFromFile(i, f, a[1], a[2], a[3], a[4])

\* one building call on a generator, on every sample input
Next == CreateIntroductionSheet \/ Build \/ Loop \/ Construct

Spec == Init /\ [][Next]_vars

\* any MaxCalls calls on one generator
NextCalls == CreateIntroductionSheet \/ Build \/ Loop \/ Direct

SpecCalls == InitCalls /\ [][NextCalls]_vars

\* the image tests: create_introduction_sheet(), then image calls on its sheet
NextImages == CreateIntroductionSheet \/ DirectImages

SpecImages == InitImages /\ [][NextImages]_vars

-----------------------------------------------------------------------------
(* Properties.                                                              *)

\* the value at (r, c) of a sheet, None where no cell exists
ValueAt(ws, r, c) ==
    IF <<r, c>> \in DOMAIN ws.cells THEN ws.cells[<<r, c>>].value ELSE None

\* the rows of table placement p really hold its title, header and data
WrittenAt(ws, title, df, start_row) ==
    /\ ValueAt(ws, start_row, 1) = Str(title)
    /\ \A c \in 1..Len(df.columns) :
          /\ ValueAt(ws, start_row + 1, c) = Str(df.columns[c])
          /\ \A k \in 1..Len(df.rows) :
                ValueAt(ws, start_row + 1 + k, c) = df.rows[k][c]

JustCalled(op) == pc = "idle" /\ last.op = op

\* C1: append_df_as_table called with any start_row on any sheet, also one
\* that already holds rows at or below start_row, leaves the title at
\* (start_row, 1), the header in row start_row + 1 and the N data rows in
\* rows start_row + 2 .. start_row + 1 + N.
C1_WritesAtStartRow ==
    JustCalled("append_df_as_table") =>
        WrittenAt(wb[last.ws], last.title, last.df, last.start_row)

\* the range a table of C columns and N rows placed at start_row should get
ExpectedRef(start_row, C, N) ==
    "A" \o ToString(start_row + 1) \o ":" \o Alphabet[C] \o ToString(start_row + 1 + N)

SheetNamed(name) == wb[CHOOSE i \in 1..Len(wb) : wb[i].title = name]

\* C2: every placement of a table with C columns and N >= 0 data rows at
\* start_row registers the range A<start_row+1>:<C><start_row+1+N> (header
\* and data, not the title) and returns start_row + N + 3, a row after
\* start_row; a table without data rows registers its one header row.
C2_RangeAndReturn ==
    \A k \in 1..Len(placed) :
        LET p == placed[k]
            N == Len(p.df.rows)
            C == Len(p.df.columns)
        IN /\ p.ref = ExpectedRef(p.start_row, C, N)
           /\ p.ret = p.start_row + N + 3
           /\ p.ret > p.start_row
           /\ \E j \in 1..Len(SheetNamed(p.ws).tables) :
                 /\ SheetNamed(p.ws).tables[j].displayName = p.name
                 /\ SheetNamed(p.ws).tables[j].ref = p.ref
           /\ (JustCalled("append_df_as_table") /\ k = Len(placed)) => ret = p.ret

\* a table without data rows and one with data rows have both been placed
C2_Witness ==
    /\ \E k \in 1..Len(placed) : Len(placed[k].df.rows) = 0 /\ placed[k].start_row > 1
    /\ \E k \in 1..Len(placed) : Len(placed[k].df.rows) >= 1

\* C3: on one generator, after any calls, the k-th table placed is named
\* Table<k>, no two tables of the workbook share a name, and the counter is
\* 1 + the number of tables placed; the Introduction sheet and images, placed
\* or not, do not move the counter.
C3_TableNames ==
    /\ global_table_counter = 1 + Len(AllTables(wb))
    /\ Len(placed) = Len(AllTables(wb))
    /\ \A k \in 1..Len(placed) : placed[k].name = "Table" \o ToString(k)
    /\ \A i, j \in 1..Len(AllTables(wb)) :
          i # j => AllTables(wb)[i].displayName # AllTables(wb)[j].displayName
    /\ {AllTables(wb)[i].displayName : i \in 1..Len(AllTables(wb))}
          = {placed[k].name : k \in 1..Len(placed)}

\* two tables have been placed, on two different sheets of the workbook
C3_Witness ==
    /\ global_table_counter >= 3
    /\ \E i, j \in 1..Len(wb) : i # j /\ wb[i].tables # <<>> /\ wb[j].tables # <<>>
    /\ pc = "idle"

\* the column names of the sample inputs that contain "Rate"
RateNamed == {"Rate", "Pass Rate", "Rates"}

\* C4: on every sheet the loops build, a cell has number format 0% exactly
\* when it lies in a data row of a table of that sheet, in a column of that
\* table whose name contains "Rate" (case-sensitive); titles, headers, other
\* columns and other tables' cells do not have it.
C4_PercentFormat ==
    \A i \in 1..Len(wb) :
        /\ \A p \in DOMAIN wb[i].cells :
              wb[i].cells[p].number_format = "0%" =>
                  \E k \in 1..Len(placed) :
                      /\ placed[k].ws = wb[i].title
                      /\ p[1] \in (placed[k].start_row + 2)
                                    ..(placed[k].start_row + 1 + Len(placed[k].df.rows))
                      /\ p[2] \in 1..Len(placed[k].df.columns)
                      /\ placed[k].df.columns[p[2]] \in RateNamed
                      /\ wb[i].cells[p].value
                            = placed[k].df.rows[p[1] - placed[k].start_row - 1][p[2]]
        /\ \A k \in 1..Len(placed) :
              placed[k].ws = wb[i].title =>
                  \A r \in 1..Len(placed[k].df.rows), c \in 1..Len(placed[k].df.columns) :
                      placed[k].df.columns[c] \in RateNamed =>
                          /\ <<placed[k].start_row + 1 + r, c>> \in DOMAIN wb[i].cells
                          /\ wb[i].cells[<<placed[k].start_row + 1 + r, c>>].number_format
                                = "0%"

\* a finished sheet with percentage cells and a table with a column "rate"
C4_Witness ==
    /\ pc = "idle"
    /\ \E i \in 1..Len(wb) :
          /\ \E p \in DOMAIN wb[i].cells : wb[i].cells[p].number_format = "0%"
          /\ \E k \in 1..Len(placed) :
                /\ placed[k].ws = wb[i].title
                /\ "rate" \in Range(placed[k].df.columns)
                /\ Len(placed[k].df.rows) >= 1

Keys(res) == [i \in 1..Len(res) |-> res[i].name]

Generated == JustCalled("generate_workbook") /\ exc = "none"

\* the sheet names are not empty and none is "Introduction" (dict keys are unique)
WellFormed(res) ==
    /\ \A i \in 1..Len(res) : res[i].name # "" /\ res[i].name # "Introduction"
    /\ \A i, j \in 1..Len(res) : i # j => res[i].name # res[j].name

\* the same, with names compared without regard to case
WellFormedNoCase(res) ==
    /\ \A i \in 1..Len(res) : res[i].name # "" /\ Lower(res[i].name) # "introduction"
    /\ \A i, j \in 1..Len(res) : i # j => Lower(res[i].name) # Lower(res[j].name)

\* C5 as stated: for unique non-empty sheet names, none equal to
\* "Introduction", the sheets after generate_workbook are "Introduction"
\* followed by the input keys in input order.
C5_SheetOrder ==
    (Generated /\ WellFormed(results)) =>
        sheetnames(wb) = <<"Introduction">> \o Keys(results)

\* C5 amended: the same for sheet names that are non-empty, distinct from each
\* other and from "Introduction" also when case is ignored.
C5_SheetOrderNoCase ==
    (Generated /\ WellFormedNoCase(results)) =>
        sheetnames(wb) = <<"Introduction">> \o Keys(results)

\* generate_workbook has returned on an input of two sheets
C5_Witness == Generated /\ WellFormedNoCase(results) /\ Len(results) >= 2

\* the (sheet, table) pairs of an input, in input order
RECURSIVE Pairs(_, _)
Pairs(res, i) ==
    IF i > Len(res) THEN <<>>
    ELSE [k \in 1..Len(res[i].tables) |->
            [si |-> i, sheet |-> res[i].name, title |-> res[i].tables[k].title]]
         \o Pairs(res, i + 1)

ValidNames(res) == \A i \in 1..Len(res) : ~InvalidTitle(res[i].name)

FailPrefix(sheet, title) ==
    "Warning: Failed to add images for " \o sheet \o "/" \o title \o ": "

StartsWith(msg, prefix) ==
    Len(msg) >= Len(prefix) /\ SubSeq(msg, 1, Len(prefix)) = prefix

\* the provider or the placement of an image raised for this pair
Failed(sheet, title) ==
    \E e \in 1..Len(provider_log) :
        /\ provider_log[e].sheet = sheet
        /\ provider_log[e].title = title
        /\ provider_log[e].event \in {"raised", "placement_raised"}

ImagesLoopReturned ==
    /\ pc = "idle"
    /\ mode = "images"
    /\ last.op \in {"create_results_sheets_with_images", "generate_workbook"}

\* C6: whatever pairs the provider or the image placement raises for,
\* create_results_sheets_with_images does not raise, prints one warning naming
\* sheet and title per failing pair, and places every table of every sheet
\* once, in input order, under the names Table1, Table2, ... of a run without
\* failures.
C6_FailuresAreContained ==
    (ImagesLoopReturned /\ ValidNames(results)) =>
        LET ps == Pairs(results, 1)
            off == Len(wb) - Len(results)
        IN /\ exc = "none"
           /\ Len(placed) = Len(ps)
           /\ Len(AllTables(wb)) = Len(ps)
           /\ \A k \in 1..Len(placed) :
                 /\ placed[k].title = ps[k].title
                 /\ placed[k].ws = wb[off + ps[k].si].title
                 /\ placed[k].name = "Table" \o ToString(k)
                 /\ \E j \in 1..Len(wb[off + ps[k].si].tables) :
                       wb[off + ps[k].si].tables[j].displayName = placed[k].name
           /\ \A k \in 1..Len(ps) :
                 Cardinality({m \in (last.printed + 1)..Len(out) :
                                StartsWith(out[m], FailPrefix(ps[k].sheet, ps[k].title))})
                    = IF Failed(ps[k].sheet, ps[k].title) THEN 1 ELSE 0

\* the provider raised for a table that is not the last of its sheet, and an
\* image placement raised too
C6_Witness ==
    /\ ImagesLoopReturned
    /\ ValidNames(results)
    /\ Len(placed) >= 3
    /\ \E e \in 1..Len(provider_log) :
          /\ provider_log[e].event = "raised"
          /\ provider_log[e].title = results[1].tables[1].title
          /\ Len(results[1].tables) >= 2
    /\ \E e \in 1..Len(provider_log) : provider_log[e].event = "placement_raised"

\* the longest str() of a value written in column c, None excepted
LongestWritten(ws, c) ==
    SetMax({Len(PyStr(v)) : v \in ColumnValues(ws, c) \ {None}})

\* C7: after create_results_sheets every column of a sheet has width L + 2,
\* L the longest string of any value written in the column: titles, headers
\* and data values, 0, 0.0 and False included.
C7_WidthIsLongestPlusTwo ==
    (JustCalled("create_results_sheets") /\ exc = "none") =>
        \A i \in 1..Len(wb) : \A c \in WsColumns(wb[i]) :
            /\ get_column_letter(c) \in DOMAIN wb[i].width
            /\ wb[i].width[get_column_letter(c)] = LongestWritten(wb[i], c) + 2

\* the caller ran create_results_sheets on one generator and
\* create_results_sheets_with_images on a second one with the same input
BothVariantsRan ==
    /\ prev.set
    /\ prev.trace = <<"create_results_sheets">>
    /\ JustCalled("create_results_sheets_with_images")
    /\ exc = "none"

\* C8: for the same input, every column width create_results_sheets_with_images
\* sets, under any image_functions, is min(w, 50) for the width w that
\* create_results_sheets sets for the column.
C8_CappedAtFifty ==
    BothVariantsRan =>
        /\ Len(wb) = Len(prev.wb)
        /\ \A i \in 1..Len(wb) :
              /\ DOMAIN wb[i].width = DOMAIN prev.wb[i].width
              /\ \A l \in DOMAIN wb[i].width :
                    wb[i].width[l] = (IF prev.wb[i].width[l] < 50
                                      THEN prev.wb[i].width[l] ELSE 50)

\* a column with a value of 80 characters: 82 wide without cap, 50 with it
C8_Witness ==
    /\ BothVariantsRan
    /\ \E i \in 1..Len(wb) : \E l \in DOMAIN wb[i].width :
          prev.wb[i].width[l] = 82 /\ wb[i].width[l] = 50

\* C9 as stated: generate_workbook builds the result sheets with
\* create_results_sheets_with_images whenever image_functions is given, an
\* empty dict included, and with create_results_sheets only for None; the
\* Introduction sheet comes before, the save after.
C9_ImagesWheneverGiven ==
    Generated =>
        trace = <<"generate_workbook", "create_introduction_sheet",
                  IF ~last.fns.none THEN "create_results_sheets_with_images"
                  ELSE "create_results_sheets",
                  "save">>

\* C9 amended: create_results_sheets_with_images runs when image_functions is
\* a dict that is not empty, create_results_sheets when it is None or empty;
\* the Introduction sheet comes before, the save after.
C9_ImagesWhenNotEmpty ==
    Generated =>
        /\ trace = <<"generate_workbook", "create_introduction_sheet",
                     IF ~last.fns.none /\ last.fns.keys # {}
                     THEN "create_results_sheets_with_images"
                     ELSE "create_results_sheets",
                     "save">>
        /\ mode = (IF ~last.fns.none /\ last.fns.keys # {} THEN "images" ELSE "plain")
        /\ OutputPath \in saved
        /\ wb[1].title = "Introduction"

\* generate_workbook returned after it was given an empty dict
C9_Witness ==
    /\ Generated
    /\ last.fns = Fns({})
    /\ Len(results) >= 1

\* an image call returned or raised where the claim expects a soft degrade:
\* the file is missing, or images cannot be embedded
SoftDegraded ==
    \/ /\ JustCalled("add_image_from_file")
       /\ (last.image_path \notin ExistingFiles \/ ~image_support)
    \/ /\ JustCalled("add_image_from_figure")
       /\ ~image_support

\* C10: add_image_from_file with a path that does not exist, and both image
\* methods when images cannot be embedded, return start_row + 1, print one
\* warning, do not raise and leave the sheet as it was.
C10_SoftDegrade ==
    SoftDegraded =>
        /\ exc = "none"
        /\ ret = last.start_row + 1
        /\ Len(out) = last.printed + 1
        /\ StartsWith(out[Len(out)], "Warning: ")
        /\ wb[last.ws] = last.before

\* the column indices the image calls were tried with
ColumnsTried == {a[2].n : a \in {b \in AnchorArgs : b[2].t = "int"}}

\* the two image calls made last, on one sheet, were the same call but for
\* start_col: one gave the index n, the other the letters of n
SameButColumn(n) ==
    /\ pc = "idle"
    /\ last.op \in ImageOps
    /\ last.earlier.op = last.op
    /\ last.earlier.ws = last.ws
    /\ last.earlier.src = (IF last.op = "add_image_from_figure" THEN last.fig
                           ELSE last.image_path)
    /\ last.earlier.start_row = last.start_row
    /\ last.earlier.width = last.width
    /\ last.earlier.height = last.height
    /\ \/ /\ last.earlier.start_col.t = "int"
          /\ last.earlier.start_col.n = n
          /\ last.start_col.t = "str"
          /\ last.start_col.s = get_column_letter(n)
       \/ /\ last.earlier.start_col.t = "str"
          /\ last.earlier.start_col.s = get_column_letter(n)
          /\ last.start_col.t = "int"
          /\ last.start_col.n = n

\* the second call of the pair ended as the first did: it returned the same
\* row and added the same images, anchor, width and height
SameAnchor ==
    /\ exc = "none"
    /\ ret = last.earlier.ret
    /\ Added(wb[last.ws], last.before) = last.earlier.added

\* C11 as stated: for every column position n >= 1 and every start_row, an
\* image placed (from a figure or from a file) with start_col the index n and
\* one placed with start_col the letters of n, all else equal, get the same
\* anchor cell.
C11_IndexAndLetterAgree ==
    \A n \in ColumnsTried : SameButColumn(n) => SameAnchor

\* C11 amended: the same for the column positions that have letters,
\* 1 <= n <= 18278 ("A" to "ZZZ"); beyond them the index raises ValueError
\* while the letters are taken as written.
C11_IndexAndLetterAgreeUpToZZZ ==
    \A n \in ColumnsTried \cap 1..MaxColumnIndex :
        SameButColumn(n) => SameAnchor

\* two images were placed, one with start_col 3 and one with "C", both
\* anchored at C5
C11_Witness ==
    /\ SameButColumn(3)
    /\ Len(last.earlier.added) = 1
    /\ Len(Added(wb[last.ws], last.before)) = 1
    /\ last.earlier.added[1].anchor = "C5"
    /\ wb[last.ws].images[Len(wb[last.ws].images)].anchor = "C5"

\* an image call returned after it placed its image: images can be embedded,
\* the file exists, and nothing was raised
Embedded ==
    /\ pc = "idle"
    /\ last.op \in ImageOps
    /\ exc = "none"
    /\ image_support
    /\ last.op = "add_image_from_file" => last.image_path \in ExistingFiles

\* the cell at (start_row, start_col) for the columns of the sample calls
CellName(start_col, start_row) ==
    (IF start_col.t = "str" THEN start_col.s
     ELSE CASE start_col.n = 1 -> "A"
            [] start_col.n = 3 -> "C"
            [] start_col.n = 27 -> "AA"
            [] start_col.n = 18278 -> "ZZZ")
    \o ToString(start_row)

\* C12: a successful add_image_from_figure or add_image_from_file with an
\* integer height h >= 0 adds exactly one image to the sheet, anchored at
\* (start_row, start_col) with the given width and height, changes nothing
\* else of the sheet, and returns start_row + floor(h / 15) + 2, a row after
\* start_row.
C12_PlacementAndReturn ==
    (Embedded /\ last.height >= 0) =>
        /\ Added(wb[last.ws], last.before)
              = <<[anchor |-> CellName(last.start_col, last.start_row),
                   width |-> last.width, height |-> last.height]>>
        /\ SubSeq(wb[last.ws].images, 1, Len(last.before.images))
              = last.before.images
        /\ [wb[last.ws] EXCEPT !.images = last.before.images] = last.before
        /\ ret = last.start_row + (last.height \div 15) + 2
        /\ ret > last.start_row
        /\ Len(out) = last.printed

\* an image of height 14, less than one row, was placed at C5 by index on a
\* sheet that already held an image, and the call returned row 7
C12_Witness ==
    /\ Embedded
    /\ last.height = 14
    /\ last.start_col = ColInt(3)
    /\ Len(last.before.images) = 1
    /\ Len(wb[last.ws].images) = 2
    /\ ret = 7

\* the log entries of one (sheet, title) pair with an event of E, in order
EntriesOf(sheet, title, E) ==
    SelectSeq(provider_log,
              LAMBDA e : e.sheet = sheet /\ e.title = title /\ e.event \in E)

\* the calls of the image function for a pair
Invocations(sheet, title) == EntriesOf(sheet, title, {"returned", "raised"})

\* the calls of add_image_from_figure for a pair
Placements(sheet, title) ==
    EntriesOf(sheet, title, {"placement", "placement_raised"})

\* the figures those calls were given, in order
PlacedFigs(sheet, title) ==
    [j \in 1..Len(Placements(sheet, title)) |-> Placements(sheet, title)[j].figs[1]]

\* the elements of a provider's result that are not None, a result that is no
\* list being its own single element
NonNullElements(result) ==
    SelectSeq(IF result.list THEN result.value ELSE <<result.value>>,
              LAMBDA f : f # "None")

IsPrefix(a, b) == Len(a) <= Len(b) /\ a = SubSeq(b, 1, Len(a))

\* the cursor the loop holds when it is done with the k-th table and its
\* images: the row after the last image placed, or the row the table returned
CursorAfter(k, sheet, title) ==
    LET done == EntriesOf(sheet, title, {"placement"})
    IN IF done = <<>> THEN placed[k].ret ELSE done[Len(done)].ret + 1

\* what C13 says of provider calls, cursor and sheets without provider; Every
\* tells whether each non-null element must have got its call
ProviderProtocol(Every) ==
    (ImagesLoopReturned /\ ValidNames(results)) =>
        LET ps == Pairs(results, 1)
            off == Len(wb) - Len(results)
        IN /\ Len(placed) = Len(ps)
           /\ \A k \in 1..Len(ps) :
                 LET sheet == ps[k].sheet
                     title == ps[k].title
                     inv == Invocations(sheet, title)
                     made == Placements(sheet, title)
                     figs == PlacedFigs(sheet, title)
                 IN /\ IF HasProvider(image_functions, sheet)
                       THEN /\ Len(inv) = 1
                            /\ inv[1].after = k
                            /\ IF inv[1].event = "raised" THEN made = <<>>
                               ELSE LET want == NonNullElements(inv[1].result)
                                    IN /\ IsPrefix(figs, want)
                                       /\ Len(figs) < Len(want) =>
                                             /\ ~Every
                                             /\ made # <<>>
                                             /\ made[Len(made)].event
                                                   = "placement_raised"
                       ELSE inv = <<>> /\ made = <<>>
                    /\ \A j \in 1..Len(made) :
                          /\ j < Len(made) => made[j].event = "placement"
                          /\ made[j].start_row
                                = (IF j = 1 THEN placed[k].ret
                                   ELSE made[j - 1].ret + 1)
                    /\ (k < Len(ps) /\ ps[k + 1].si = ps[k].si) =>
                          placed[k + 1].start_row = CursorAfter(k, sheet, title)
           /\ \A i \in 1..Len(results) :
                 Len(wb[off + i].images)
                    = IF HasProvider(image_functions, results[i].name) /\ image_support
                      THEN Cardinality({e \in 1..Len(provider_log) :
                                          /\ provider_log[e].sheet = results[i].name
                                          /\ provider_log[e].event = "placement"})
                      ELSE 0
           /\ Len(out) - last.printed
                 = Cardinality({e \in 1..Len(provider_log) :
                                        \/ provider_log[e].event
                                              \in {"raised", "placement_raised"}
                                        \/ /\ provider_log[e].event = "placement"
                                           /\ ~image_support})
                          + (IF last.op = "generate_workbook" THEN 1 ELSE 0)

\* C13 as stated: in create_results_sheets_with_images the image function of a
\* sheet is called once per table, after the table is placed and before the
\* next one; a result that is no list counts as a list of one;
\* add_image_from_figure is called once for every element that is not None,
\* in order, at the cursor, and moves the cursor to the row it returns plus
\* one; None elements and a None result cause no call, no warning and no move
\* of the cursor; a sheet without image function gets no call and no image.
C13_OncePerElement == ProviderProtocol(TRUE)

\* C13 amended: the same, but add_image_from_figure is called for the
\* elements that are not None only up to the first call that raises; the
\* elements after it get no call.
C13_OncePerElementUntilFailure == ProviderProtocol(FALSE)

\* images can be embedded; on one sheet the image function returned a single
\* figure for one table and a list with Nones for the next, both were placed,
\* and another sheet with a table had no image function
C13_Witness ==
    /\ ImagesLoopReturned
    /\ ValidNames(results)
    /\ image_support
    /\ \E e \in 1..Len(provider_log) :
          /\ provider_log[e].event = "returned"
          /\ ~provider_log[e].result.list
          /\ provider_log[e].result.value = "ok"
          /\ Len(Placements(provider_log[e].sheet, provider_log[e].title)) = 1
    /\ \E e \in 1..Len(provider_log) :
          /\ provider_log[e].event = "returned"
          /\ provider_log[e].result.list
          /\ provider_log[e].result.value = <<"None", "ok", "None">>
          /\ provider_log[e].after = 2
    /\ \E i \in 1..Len(results) :
          /\ ~HasProvider(image_functions, results[i].name)
          /\ results[i].tables # <<>>
    /\ \E i \in 1..Len(wb) : Len(wb[i].images) = 2

\* a sheet is being built by one of the two loops
BuildingSheet == pc \in {"tables", "provider", "figures"}

\* the last row of a sheet that holds a cell, 0 on a sheet without cells
LastWrittenRow(ws) == SetMax({p[1] : p \in DOMAIN ws.cells})

\* no cell of row r of the sheet holds a value
BlankRow(ws, r) == \A p \in DOMAIN ws.cells : p[1] = r => ws.cells[p].value = None

\* the tables the loops have placed lie where they were placed, each range
\* is the header and data rows, and the blocks of two tables of one sheet are
\* apart by a blank row or more
BlocksApart ==
    /\ BuildingSheet => current_row > LastWrittenRow(wb[cur_ws])
    /\ \A k \in 1..Len(placed) :
          LET p == placed[k]
              last_row == p.start_row + 1 + Len(p.df.rows)
          IN /\ WrittenAt(SheetNamed(p.ws), p.title, p.df, p.start_row)
             /\ p.ref = ExpectedRef(p.start_row, Len(p.df.columns), Len(p.df.rows))
             /\ BlankRow(SheetNamed(p.ws), last_row + 1)
             /\ \A l \in 1..Len(placed) :
                   (k < l /\ placed[l].ws = p.ws) =>
                       placed[l].start_row >= last_row + 2

\* one step of a loop: a new sheet starts at row 1, the cursor of a sheet
\* does not go back, and no cell that holds a value loses or changes it
CursorStep ==
    pc # "idle" =>
        /\ (pc = "sheets" /\ pc' = "tables") =>
              (current_row' = 1 /\ wb'[cur_ws'].cells = EmptyFn)
        /\ (BuildingSheet /\ pc' # "idle") =>
              (cur_ws' = cur_ws /\ current_row' >= current_row)
        /\ Len(wb') >= Len(wb)
        /\ \A i \in 1..Len(wb) : \A q \in DOMAIN wb[i].cells :
              wb[i].cells[q].value # None =>
                  /\ q \in DOMAIN wb'[i].cells
                  /\ wb'[i].cells[q].value = wb[i].cells[q].value
                  /\ (i # cur_ws' \/ q[1] < current_row)

\* C14: during create_results_sheets and create_results_sheets_with_images,
\* whatever the image functions do, the cursor of every sheet starts at 1,
\* never decreases and, whenever a table is about to be placed, is greater
\* than every row written on the sheet; no written row is rewritten, the
\* range of each table is its header and data rows, and the blocks of the
\* tables of a sheet, title row to last data row, are pairwise disjoint with
\* one blank row or more between them.
C14_CursorAppendOnly == []BlocksApart /\ [][CursorStep]_vars

\* with images embedded, the second table of a sheet was placed below the
\* image that followed the first, and the image function raised for it
C14_Witness ==
    /\ pc = "tables"
    /\ mode = "images"
    /\ image_support
    /\ Len(wb[cur_ws].tables) = 2
    /\ Len(wb[cur_ws].images) >= 1
    /\ placed[Len(placed)].start_row > placed[Len(placed) - 1].ret
    /\ \E e \in 1..Len(provider_log) : provider_log[e].event = "raised"

====
